---- MODULE Spec2Model ----
(***************************************************************************)
(* A model of PySeqsee's run loop (tide/controller.py), of the setup done  *)
(* by farg/core/main.py and of the base Category protocol                  *)
(* (farg/categorization/category.py).                                      *)
(*                                                                         *)
(* Execution is single threaded: `pc` is the position of the one thread.   *)
(* A call to Step is cut at the places where its properties look at the   *)
(* state (after lines 70-72, after injection, after the draw, while the    *)
(* codelet runs); while a call is in progress only its continuation is     *)
(* enabled. A running codelet may schedule follow-up codelets on its own   *)
(* Controller; it does not step a Controller.                              *)
(***************************************************************************)
EXTENDS Integers, FiniteSets, Sequences, TLC

VARIABLES
  constructed,   \* the Controllers that have been constructed
  coderack,      \* coderack[c]: the codelets in c.coderack (a set of codelet objects)
  steps_taken,   \* steps_taken[c]: c.steps_taken
  ltm,           \* ltm[c]: the LTM instance c.ltm refers to (0 when c.ltm is None)
  registry,      \* LTMManager: registry[nm] is the instance cached for nm (0: none yet)
  timesteps,     \* timesteps[i]: the _timesteps field of LTM instance i (a sequence)
  pc,            \* position of the thread: idle, loop, inject, draw, run
  call,          \* the call in progress (pc # idle) or the last completed one (pc = idle)
  codelet,       \* the codelet drawn by the Step in progress, or NoCodelet
  adds,          \* number of Controller.AddCodelet calls made by the running codelet
  halted,        \* the Controllers out of whose Step a signal has propagated
  calls,         \* calls[c]: how many times Step has been called on c
  \* farg/core/main.py
  app,           \* the class attributes of the Main subclass
  flags,         \* self.flags
  fs,            \* the directories that exist
  run_mode,      \* self.run_mode
  stopping_condition_fn,   \* self.stopping_condition_fn
  mstatus,       \* new, ok (constructed), exit (sys.exit(1)), TypeError, run (Run called)
  \* farg/categorization/category.py
  memberships,   \* memberships[item]: the categories recorded on a categorizable item
  result         \* the outcome of the last call to an operation of the base Category

cvars == <<constructed, coderack, steps_taken, ltm, registry, timesteps,
           pc, call, codelet, adds, halted, calls>>
mvars == <<app, flags, fs, run_mode, stopping_condition_fn, mstatus>>
catvars == <<memberships, result>>
vars == <<cvars, mvars, catvars>>

None == "None"

----------------------------------------------------------------------------
(* Bounds of the model.                                                    *)

\* The Controllers take no more than MaxSteps steps between them.
MaxSteps == 3
\* A running codelet calls Controller.AddCodelet at most MaxFollowUps times.
MaxFollowUps == 2

----------------------------------------------------------------------------
(* The Controller subclasses of the model (class attributes, lines 21-31). *)

Controllers == {"c1", "c2", "c3"}

\* A Controller subclass with a roomy Coderack, run on its own to watch the coin
\* flips of injection without evictions.
InjectionControllers == {"c4"}

AllControllers == Controllers \cup InjectionControllers

\* Controller.routine_codelets_to_add: (family, urgency, probability) triples;
\* a probability is given in percent.
routine_codelets_to_add(c) ==
  CASE c = "c1" -> << [family |-> "F1", urgency |-> 2, probability |-> 0],
                      [family |-> "F2", urgency |-> 1, probability |-> 50] >>
    [] c = "c2" -> << >>
    [] c = "c3" -> << [family |-> "F4", urgency |-> 1, probability |-> 100] >>
    [] c = "c4" -> << [family |-> "F5", urgency |-> 1, probability |-> 50],
                      [family |-> "F6", urgency |-> 2, probability |-> 50],
                      [family |-> "F7", urgency |-> 1, probability |-> 0] >>

\* Controller.ltm_name
ltm_name(c) == IF c \in {"c1", "c2"} THEN "ltm" ELSE None

LtmNames == {"ltm"}

\* Whether the class of c defines HandleFargException. Controller itself defines
\* none (line 79 calls a method the class does not have); a subclass may.
HasHandleFargException(c) == c = "c3"

\* What Controller.AddCodelet is called with (arguments_dict is carried by the
\* codelet and read by nothing modelled here).
AddFamilies == {"F3"}
AddUrgencies == {0, 2}

\* The family registry of the hosting application: whether the action of a family
\* schedules follow-up work. Every action may return or raise.
SchedulesFollowUps(family) == family \in {"F1", "F3"}

----------------------------------------------------------------------------
(* Collaborators that live outside src/: Codelet, Coderack, Toss,          *)
(* LTMManager.                                                             *)

\* The identity of a new object: one that no live object has. live is the set of
\* codelets that exist when the object is built; the identity of an object that no
\* longer exists may be used again, as with Python's id().
FreshId(live) ==
  CHOOSE i \in 1..(Cardinality(live) + 1) :
    /\ \A x \in live : x.id # i
    /\ \A j \in 1..(i - 1) : \E x \in live : x.id = j

\* Codelet(family, controller, urgency): a new object.
Codelet(family, c, urgency, live) ==
  [family |-> family, urgency |-> urgency, controller |-> c, id |-> FreshId(live)]

\* The capacity of a Coderack.
max_capacity == 2

\* The capacity of the Coderack class of the InjectionControllers.
large_capacity == 6

\* The capacity of the Coderack of c (coderack_class, line 24).
Capacity(c) == IF c \in InjectionControllers THEN large_capacity ELSE max_capacity

\* Coderack.IsEmpty()
IsEmpty(rack) == rack = {}

\* Coderack.AddCodelet(codelet): the racks that may result. At capacity one
\* current member, chosen at random, is evicted before the insertion.
CoderackAddCodelet(rack, cl) ==
  IF Cardinality(rack) >= Capacity(cl.controller)
  THEN {(rack \ {v}) \cup {cl} : v \in rack}
  ELSE {rack \cup {cl}}

\* Coderack.GetCodelet(): the members a weighted draw may return. A member of
\* urgency 0 has weight 0 and is drawn only when every weight is 0.
Drawable(rack) ==
  IF \E x \in rack : x.urgency > 0 THEN {x \in rack : x.urgency > 0} ELSE rack

\* Toss(probability): the outcomes of the coin flip.
Toss(probability) ==
  IF probability <= 0 THEN {FALSE}
  ELSE IF probability >= 100 THEN {TRUE}
  ELSE {TRUE, FALSE}

\* LTMManager.GetLTM(name): the cached instance for name, or a new one.
GetLTM(name) ==
  IF registry[name] # 0 THEN registry[name] ELSE Len(timesteps) + 1

----------------------------------------------------------------------------
(* Controller._AddRoutineCodelets (lines 52-65).                           *)

\* The loop with a break after the first codelet that a toss lets in: the triples
\* exclude one another.
RECURSIVE AddRoutineFromExclusive(_, _, _, _)
AddRoutineFromExclusive(c, i, force, rack) ==
  IF i > Len(routine_codelets_to_add(c))
  THEN {rack}
  ELSE LET t == routine_codelets_to_add(c)[i] IN
       UNION { IF force \/ toss
               THEN UNION { IF force THEN AddRoutineFromExclusive(c, i + 1, force, r)
                                     ELSE {r} :
                            r \in CoderackAddCodelet(
                                    rack, Codelet(t.family, c, t.urgency, rack)) }
               ELSE AddRoutineFromExclusive(c, i + 1, force, rack)
             : toss \in IF force THEN {TRUE} ELSE Toss(t.probability) }

\* The loop of lines 63-65 from triple i on: the racks it may end in.
RECURSIVE AddRoutineFrom(_, _, _, _)
AddRoutineFrom(c, i, force, rack) ==
  IF i > Len(routine_codelets_to_add(c))
  THEN {rack}
  ELSE LET t == routine_codelets_to_add(c)[i] IN
       UNION { IF force \/ toss
               THEN UNION { AddRoutineFrom(c, i + 1, force, r) :
                            r \in CoderackAddCodelet(
                                    rack, Codelet(t.family, c, t.urgency, rack)) }
               ELSE AddRoutineFrom(c, i + 1, force, rack)
             : toss \in IF force THEN {TRUE} ELSE Toss(t.probability) }

\* The loop with the emptiness test of lines 60-61 made for every triple.
RECURSIVE AddRoutineRetestFrom(_, _, _, _)
AddRoutineRetestFrom(c, i, force, rack) ==
  IF i > Len(routine_codelets_to_add(c))
  THEN {rack}
  ELSE LET t == routine_codelets_to_add(c)[i] IN
       UNION { IF force \/ IsEmpty(rack) \/ toss
               THEN UNION { AddRoutineRetestFrom(c, i + 1, force, r) :
                            r \in CoderackAddCodelet(
                                    rack, Codelet(t.family, c, t.urgency, rack)) }
               ELSE AddRoutineRetestFrom(c, i + 1, force, rack)
             : toss \in Toss(t.probability) }

\* _AddRoutineCodelets testing the emptiness inside the loop.
AddRoutineCodeletsRetest(c, force, rack) == AddRoutineRetestFrom(c, 1, force, rack)

\* _AddRoutineCodelets that never forces: every triple is tossed for.
AddRoutineCodeletsNoForce(c, force, rack) == AddRoutineFrom(c, 1, FALSE, rack)

\* _AddRoutineCodelets(force): the emptiness test of lines 60-61 is made once.
AddRoutineCodelets(c, force, rack) ==
  AddRoutineFrom(c, 1, force \/ IsEmpty(rack), rack)

----------------------------------------------------------------------------
\* No codelet is running.
NoCodelet == [family |-> None, urgency |-> 0, controller |-> None, id |-> 0]

\* The steps the Controllers have taken between them.
RECURSIVE StepsOf(_)
StepsOf(cs) ==
  IF cs = {} THEN 0
  ELSE LET c == CHOOSE x \in cs : TRUE IN steps_taken[c] + StepsOf(cs \ {c})

StepsLeft == MaxSteps - StepsOf(AllControllers)

\* A call by the driver: the operation, its Controller and argument, and what the
\* driver can tell of it: done counts the calls to Step it has made, start is the
\* step count it found, forced whether the injection of its last Step found the
\* Coderack empty, raised what the last codelet to raise raised, signal what
\* propagated out of it.
NoCall == [op |-> "none", ctrl |-> None, n |-> 0, done |-> 0, start |-> 0,
           forced |-> FALSE, raised |-> "none", signal |-> "none"]

InitControllers ==
  /\ constructed = {}
  /\ coderack = [c \in AllControllers |-> {}]
  /\ steps_taken = [c \in AllControllers |-> 0]
  /\ ltm = [c \in AllControllers |-> 0]
  /\ registry = [nm \in LtmNames |-> 0]
  /\ timesteps = << >>
  /\ pc = "idle"
  /\ call = NoCall
  /\ codelet = NoCodelet
  /\ adds = 0
  /\ halted = {}
  /\ calls = [c \in AllControllers |-> 0]

\* __init__ building an LTM of its own instead of asking the LTMManager.
ControllerLtmFresh(c) ==
  IF ltm_name(c) # None THEN Len(timesteps) + 1 ELSE 0

\* Lines 38-42 of __init__: the instance self.ltm is bound to (0 for None).
ControllerLtm(c) ==
  IF ltm_name(c) # None THEN GetLTM(ltm_name(c)) ELSE 0

\* Controller.__init__ (lines 33-50)
Construct(c) ==
  /\ pc = "idle"
  /\ c \notin constructed
  /\ constructed' = constructed \cup {c}
  /\ ltm' = [ltm EXCEPT ![c] = ControllerLtm(c)]
  /\ registry' = IF ltm_name(c) # None /\ registry[ltm_name(c)] = 0
                 THEN [registry EXCEPT ![ltm_name(c)] = ControllerLtm(c)]
                 ELSE registry
  /\ timesteps' = IF ControllerLtm(c) > Len(timesteps)
                  THEN Append(timesteps, 0)      \* a new LTM starts at time 0
                  ELSE timesteps
  /\ steps_taken' = [steps_taken EXCEPT ![c] = 0]
  /\ \E r \in AddRoutineCodelets(c, TRUE, {}) :
       coderack' = [coderack EXCEPT ![c] = r]
  /\ call' = [NoCall EXCEPT !.op = "Construct", !.ctrl = c]
  /\ UNCHANGED <<pc, codelet, adds, halted, calls>>
  /\ UNCHANGED <<mvars, catvars>>

\* StepBegin with steps_taken kept on the class: every Controller built counts
\* the step.
StepBeginClassCounter(c) ==
  /\ steps_taken' = [d \in AllControllers |->
                       IF d \in constructed THEN steps_taken[c] + 1 ELSE steps_taken[d]]
  /\ timesteps' = IF ltm[c] # 0
                  THEN [timesteps EXCEPT ![ltm[c]] = steps_taken[c] + 1]
                  ELSE timesteps
  /\ pc' = "inject"

\* StepBegin with lines 71-72 moved before line 70: the LTM gets the old count.
StepBeginStaleTime(c) ==
  /\ steps_taken' = [steps_taken EXCEPT ![c] = steps_taken[c] + 1]
  /\ timesteps' = IF ltm[c] # 0
                  THEN [timesteps EXCEPT ![ltm[c]] = steps_taken[c]]
                  ELSE timesteps
  /\ pc' = "inject"

\* Lines 70-72 of Step: count the step and write the attached LTM's time.
StepBegin(c) ==
  /\ steps_taken' = [steps_taken EXCEPT ![c] = steps_taken[c] + 1]
  /\ timesteps' = IF ltm[c] # 0
                  THEN [timesteps EXCEPT ![ltm[c]] = steps_taken[c] + 1]
                  ELSE timesteps
  /\ pc' = "inject"

\* A driver calls Controller.Step (line 68).
Step(c) ==
  /\ pc = "idle"
  /\ c \in constructed
  /\ StepsLeft >= 1
  /\ StepBegin(c)
  /\ call' = [NoCall EXCEPT !.op = "Step", !.ctrl = c, !.n = 1, !.done = 1,
                            !.start = steps_taken[c]]
  /\ calls' = [calls EXCEPT ![c] = calls[c] + 1]
  /\ UNCHANGED <<constructed, coderack, ltm, registry, codelet, adds, halted>>
  /\ UNCHANGED <<mvars, catvars>>

\* A driver calls Controller.RunUptoNSteps(n_steps) (line 81).
RunUptoNSteps(c, n_steps) ==
  /\ pc = "idle"
  /\ c \in constructed
  /\ n_steps <= StepsLeft
  /\ pc' = "loop"
  /\ call' = [NoCall EXCEPT !.op = "RunUptoNSteps", !.ctrl = c, !.n = n_steps,
                            !.start = steps_taken[c]]
  /\ UNCHANGED <<constructed, coderack, steps_taken, ltm, registry, timesteps,
                 codelet, adds, halted, calls>>
  /\ UNCHANGED <<mvars, catvars>>

\* Lines 85-86: the next iteration of the loop calls Step.
LoopStep ==
  /\ pc = "loop"
  /\ call.done < call.n
  /\ StepBegin(call.ctrl)
  /\ call' = [call EXCEPT !.done = call.done + 1]
  /\ calls' = [calls EXCEPT ![call.ctrl] = calls[call.ctrl] + 1]
  /\ UNCHANGED <<constructed, coderack, ltm, registry, codelet, adds, halted>>
  /\ UNCHANGED <<mvars, catvars>>

\* Line 85: the range is exhausted and RunUptoNSteps returns.
LoopReturn ==
  /\ pc = "loop"
  /\ call.done >= call.n
  /\ pc' = "idle"
  /\ UNCHANGED <<constructed, coderack, steps_taken, ltm, registry, timesteps,
                 call, codelet, adds, halted, calls>>
  /\ UNCHANGED <<mvars, catvars>>

\* Line 73 of Step: self._AddRoutineCodelets()
Inject ==
  /\ pc = "inject"
  /\ \E r \in AddRoutineCodelets(call.ctrl, FALSE, coderack[call.ctrl]) :
       coderack' = [coderack EXCEPT ![call.ctrl] = r]
  /\ call' = [call EXCEPT !.forced = IsEmpty(coderack[call.ctrl])]
  /\ pc' = "draw"
  /\ UNCHANGED <<constructed, steps_taken, ltm, registry, timesteps, codelet,
                 adds, halted, calls>>
  /\ UNCHANGED <<mvars, catvars>>

\* StepReturns with lines 74-79 under a while: as long as the Coderack is not
\* empty the Step draws again.
StepReturnsDrawAgain ==
  /\ pc' = IF ~IsEmpty(coderack[call.ctrl]) THEN "draw"
           ELSE IF call.op = "RunUptoNSteps" THEN "loop" ELSE "idle"
  /\ codelet' = NoCodelet
  /\ adds' = 0

\* Step returns normally to its caller: the driver, or the loop of RunUptoNSteps.
StepReturns ==
  /\ pc' = IF call.op = "RunUptoNSteps" THEN "loop" ELSE "idle"
  /\ codelet' = NoCodelet
  /\ adds' = 0

\* StepRaises with a loop in RunUptoNSteps that catches the signal and goes on.
StepRaisesCaught(raised, signal) ==
  /\ pc' = IF call.op = "RunUptoNSteps" THEN "loop" ELSE "idle"
  /\ codelet' = NoCodelet
  /\ adds' = 0
  /\ call' = [call EXCEPT !.raised = raised, !.signal = signal]
  /\ halted' = halted \cup {call.ctrl}

\* A signal propagates out of Step, and out of RunUptoNSteps, which catches nothing.
StepRaises(raised, signal) ==
  /\ pc' = "idle"
  /\ codelet' = NoCodelet
  /\ adds' = 0
  /\ call' = [call EXCEPT !.raised = raised, !.signal = signal]
  /\ halted' = halted \cup {call.ctrl}

\* Step without the test of line 74: GetCodelet is called on the empty Coderack
\* and its EmptyCoderackError leaves Step.
SkipEmptyDraws ==
  /\ pc = "draw"
  /\ IsEmpty(coderack[call.ctrl])
  /\ StepRaises("none", "EmptyCoderackError")
  /\ UNCHANGED <<constructed, coderack, steps_taken, ltm, registry, timesteps, calls>>
  /\ UNCHANGED <<mvars, catvars>>

\* Line 74 when the Coderack is empty after injection: Step returns.
SkipEmpty ==
  /\ pc = "draw"
  /\ IsEmpty(coderack[call.ctrl])
  /\ StepReturns
  /\ UNCHANGED <<constructed, coderack, steps_taken, ltm, registry, timesteps,
                 call, halted, calls>>
  /\ UNCHANGED <<mvars, catvars>>

\* GetCodelet with a draw that leaves the drawn codelet in the Coderack.
GetCodeletKeeps ==
  /\ pc = "draw"
  /\ ~IsEmpty(coderack[call.ctrl])
  /\ \E x \in Drawable(coderack[call.ctrl]) : codelet' = x
  /\ pc' = "run"
  /\ adds' = 0
  /\ UNCHANGED <<constructed, coderack, steps_taken, ltm, registry, timesteps, call,
                 halted, calls>>
  /\ UNCHANGED <<mvars, catvars>>

\* Lines 74-75: codelet = self.coderack.GetCodelet(); the draw removes it.
GetCodelet ==
  /\ pc = "draw"
  /\ ~IsEmpty(coderack[call.ctrl])
  /\ \E x \in Drawable(coderack[call.ctrl]) :
       /\ codelet' = x
       /\ coderack' = [coderack EXCEPT ![call.ctrl] = coderack[call.ctrl] \ {x}]
  /\ pc' = "run"
  /\ adds' = 0
  /\ UNCHANGED <<constructed, steps_taken, ltm, registry, timesteps, call, halted,
                 calls>>
  /\ UNCHANGED <<mvars, catvars>>

\* Controller.AddCodelet putting the codelet into the rack's set itself, without
\* Coderack.AddCodelet.
ControllerAddCodeletDirect(c, family, urgency) ==
  {coderack[c] \cup {Codelet(family, c, urgency, coderack[c] \cup {codelet})}}

\* Controller.AddCodelet (lines 88-92) on controller c, called by the running
\* codelet: the racks it may leave.
ControllerAddCodelet(c, family, urgency) ==
  CoderackAddCodelet(coderack[c],
                     Codelet(family, c, urgency, coderack[c] \cup {codelet}))

\* The running codelet schedules follow-up work on its Controller (line 77, inside Run).
CodeletAdds ==
  /\ pc = "run"
  /\ SchedulesFollowUps(codelet.family)
  /\ adds < MaxFollowUps
  /\ \E f \in AddFamilies, u \in AddUrgencies :
       \E r \in ControllerAddCodelet(call.ctrl, f, u) :
         coderack' = [coderack EXCEPT ![call.ctrl] = r]
  /\ adds' = adds + 1
  /\ UNCHANGED <<constructed, steps_taken, ltm, registry, timesteps, pc, call, codelet,
                 halted, calls>>
  /\ UNCHANGED <<mvars, catvars>>

\* Line 77: codelet.Run() returns.
CodeletReturns ==
  /\ pc = "run"
  /\ StepReturns
  /\ UNCHANGED <<constructed, coderack, steps_taken, ltm, registry, timesteps,
                 call, halted, calls>>
  /\ UNCHANGED <<mvars, catvars>>

\* Line 79: self.HandleFargException(e). A subclass's handler records the exception
\* and returns; Controller has no such method, so the lookup raises AttributeError.
HandleFargException(c) ==
  IF HasHandleFargException(c) THEN "none" ELSE "AttributeError"

\* Lines 77-79: codelet.Run() raises a FargException, which Step catches.
CodeletRaisesFargException ==
  /\ pc = "run"
  /\ IF HandleFargException(call.ctrl) = "none"
     THEN /\ StepReturns
          /\ call' = [call EXCEPT !.raised = "FargException"]
          /\ UNCHANGED halted
     ELSE StepRaises("FargException", HandleFargException(call.ctrl))
  /\ UNCHANGED <<constructed, coderack, steps_taken, ltm, registry, timesteps, calls>>
  /\ UNCHANGED <<mvars, catvars>>

\* Line 77: codelet.Run() raises anything that is no FargException; Step lets it pass.
CodeletRaisesOther ==
  /\ pc = "run"
  /\ StepRaises("Other", "Halt")
  /\ UNCHANGED <<constructed, coderack, steps_taken, ltm, registry, timesteps, calls>>
  /\ UNCHANGED <<mvars, catvars>>

NextControllers ==
  \/ \E c \in Controllers : Construct(c)
  \/ \E c \in Controllers : Step(c)
  \/ \E c \in Controllers, n \in 0..MaxSteps : RunUptoNSteps(c, n)
  \/ LoopStep
  \/ LoopReturn
  \/ Inject
  \/ SkipEmpty
  \/ GetCodelet
  \/ CodeletAdds
  \/ CodeletReturns
  \/ CodeletRaisesFargException
  \/ CodeletRaisesOther

\* The run loop of a Controller with a roomy Coderack, whose codelets schedule no
\* follow-up work. Forced injection never leaves its Coderack empty.
NextInjection ==
  \/ \E c \in InjectionControllers : Construct(c)
  \/ \E c \in InjectionControllers : Step(c)
  \/ Inject
  \/ GetCodelet
  \/ CodeletReturns
  \/ CodeletRaisesOther

----------------------------------------------------------------------------
(* farg/core/main.py: Main.__init__ and the checks of ProcessFlags.        *)

\* A path is the sequence of its components; << >> stands for an unset flag.
Unset == << >>
Home == <<"~">>
join(path, name) == Append(path, name)

\* The values the flags are drawn from.
RunModes == {"gui", "single", "batch", "sxs", "other"}
\* StoppingConditions.StoppingConditionsList()
StoppingConditionsList == {"known"}
StoppingConditionFlags == {"", "None", "known", "unknown"}
\* --input_spec_file: unset, a file, a directory, or a path that does not exist
InputSpecFiles == {"", "spec.txt", "specdir", "missing.txt"}
InputExists(f) == f \in {"spec.txt", "specdir"}
InputIsFile(f) == f = "spec.txt"
\* --debug: unset, a level of the logging module, or no such level
DebugFlags == {"", "info", "bogus"}
IsLogLevel(d) == d = "info"
\* A directory flag is unset or names a directory that exists or does not.
DirFlagStates == {"unset", "exists", "absent"}
\* What exists below the home directory before the program starts.
HomeStates == { {}, {Home}, {Home, join(Home, ".pyseqsee")},
                {Home, join(Home, ".pyseqsee"), join(join(Home, ".pyseqsee"), "app")} }

\* The state Main's methods work on.
MainState == [flags |-> flags, fs |-> fs, run_mode |-> run_mode,
              stopping_condition_fn |-> stopping_condition_fn, status |-> "ok"]

\* sys.exit(1)
Exit(st) == [st EXCEPT !.status = "exit"]
\* os.mkdir(directory), after os.path.exists(directory) was false
Mkdir(st, directory) == [st EXCEPT !.fs = @ \cup {directory}]

\* Lines 188-192 of ProcessFlags: the --debug flag.
CheckDebug(st) ==
  IF st.flags.debug # "" /\ ~IsLogLevel(st.flags.debug) THEN Exit(st) ELSE st

\* Lines 199-208 of ProcessFlags: the input spec file exists and is a file.
CheckInputSpecFile(st) ==
  IF st.flags.input_spec_file # ""
  THEN IF ~InputExists(st.flags.input_spec_file) THEN Exit(st)
       ELSE IF ~InputIsFile(st.flags.input_spec_file) THEN Exit(st)
       ELSE st
  ELSE st

\* Main.VerifyStoppingConditionSanity (lines 133-153)
VerifyStoppingConditionSanity(st) ==
  IF st.flags.run_mode = "gui"
  THEN IF st.flags.stopping_condition # "" THEN Exit(st) ELSE st
  ELSE IF st.flags.stopping_condition # "" /\ st.flags.stopping_condition # "None"
       THEN IF st.flags.stopping_condition \notin StoppingConditionsList
            THEN Exit(st)
            ELSE [st EXCEPT !.stopping_condition_fn = st.flags.stopping_condition]
       ELSE [st EXCEPT !.stopping_condition_fn = ""]

\* Main.VerifyPersistentDirectoryPath (lines 86-105)
VerifyPersistentDirectoryPath(st) ==
  LET pyseqsee_home == join(Home, ".pyseqsee")
      made_home == IF pyseqsee_home \notin st.fs THEN Mkdir(st, pyseqsee_home) ELSE st
      directory == IF st.flags.persistent_directory = Unset
                   THEN join(pyseqsee_home, app.application_name)
                   ELSE st.flags.persistent_directory
      st1 == IF st.flags.persistent_directory = Unset THEN made_home ELSE st
      st2 == IF directory \notin st1.fs THEN Mkdir(st1, directory) ELSE st1
  IN IF st.flags.persistent_directory = Unset /\ Home \notin st.fs
     THEN Exit(st)
     ELSE [st2 EXCEPT !.flags.persistent_directory = directory]

\* Main.VerifyLTMPath (lines 107-118)
VerifyLTMPath(st) ==
  IF st.flags.ltm_directory # Unset
  THEN IF st.flags.ltm_directory \notin st.fs THEN Exit(st) ELSE st
  ELSE LET st1 == VerifyPersistentDirectoryPath(st)
           ltm_directory == join(st1.flags.persistent_directory, "ltm")
           st2 == [st1 EXCEPT !.flags.ltm_directory = ltm_directory]
       IN IF st1.status # "ok" THEN st1
          ELSE IF ltm_directory \notin st2.fs THEN Mkdir(st2, ltm_directory) ELSE st2

\* Main.VerifyStatsPath (lines 120-131)
VerifyStatsPath(st) ==
  IF st.flags.stats_directory # Unset
  THEN IF st.flags.stats_directory \notin st.fs THEN Exit(st) ELSE st
  ELSE LET st1 == VerifyPersistentDirectoryPath(st)
           stats_directory == join(st1.flags.persistent_directory, "stats")
           st2 == [st1 EXCEPT !.flags.stats_directory = stats_directory]
       IN IF st1.status # "ok" THEN st1
          ELSE IF stats_directory \notin st2.fs THEN Mkdir(st2, stats_directory) ELSE st2

\* CreateRunModeInstance without the exits of lines 166-169 and 179-181: it falls
\* off its end and returns None.
CreateRunModeInstanceSilent(st) ==
  IF st.flags.run_mode = "gui" THEN [st EXCEPT !.run_mode = "RunModeGUI"]
  ELSE IF st.flags.run_mode = "single" THEN [st EXCEPT !.run_mode = "RunModeSingle"]
  ELSE IF st.flags.input_spec_file = "" THEN st
  ELSE IF app.input_spec_reader_class = None THEN [st EXCEPT !.status = "TypeError"]
  ELSE IF st.flags.run_mode = "batch" THEN [st EXCEPT !.run_mode = "RunModeBatch"]
  ELSE IF st.flags.run_mode = "sxs" THEN [st EXCEPT !.run_mode = "RunModeSxS"]
  ELSE st

\* Main.CreateRunModeInstance (lines 155-181) and the assignment of line 214.
\* Calling input_spec_reader_class, left None, raises TypeError (line 170).
CreateRunModeInstance(st) ==
  IF st.flags.run_mode = "gui" THEN [st EXCEPT !.run_mode = "RunModeGUI"]
  ELSE IF st.flags.run_mode = "single" THEN [st EXCEPT !.run_mode = "RunModeSingle"]
  ELSE IF st.flags.input_spec_file = "" THEN Exit(st)
  ELSE IF app.input_spec_reader_class = None THEN [st EXCEPT !.status = "TypeError"]
  ELSE IF st.flags.run_mode = "batch" THEN [st EXCEPT !.run_mode = "RunModeBatch"]
  ELSE IF st.flags.run_mode = "sxs" THEN [st EXCEPT !.run_mode = "RunModeSxS"]
  ELSE Exit(st)

\* ProcessFlags with the three directory checks of lines 211-213 moved to its top.
ProcessFlagsCreateFirst(st) ==
  LET s1 == VerifyPersistentDirectoryPath(st)
      s2 == IF s1.status # "ok" THEN s1 ELSE VerifyLTMPath(s1)
      s3 == IF s2.status # "ok" THEN s2 ELSE VerifyStatsPath(s2)
      s4 == IF s3.status # "ok" THEN s3 ELSE CheckDebug(s3)
      s5 == IF s4.status # "ok" THEN s4 ELSE CheckInputSpecFile(s4)
      s6 == IF s5.status # "ok" THEN s5 ELSE VerifyStoppingConditionSanity(s5)
  IN IF s6.status # "ok" THEN s6 ELSE CreateRunModeInstance(s6)

\* Main.ProcessFlags (lines 183-214); ProcessCustomFlags does nothing and
\* flags.debug_config is unset. A statement is reached unless an earlier one has
\* left the method by sys.exit or an exception.
ProcessFlags(st) ==
  LET s1 == CheckDebug(st)
      s2 == IF s1.status # "ok" THEN s1 ELSE CheckInputSpecFile(s1)
      s3 == IF s2.status # "ok" THEN s2 ELSE VerifyStoppingConditionSanity(s2)
      s4 == IF s3.status # "ok" THEN s3 ELSE VerifyPersistentDirectoryPath(s3)
      s5 == IF s4.status # "ok" THEN s4 ELSE VerifyLTMPath(s4)
      s6 == IF s5.status # "ok" THEN s5 ELSE VerifyStatsPath(s5)
  IN IF s6.status # "ok" THEN s6 ELSE CreateRunModeInstance(s6)

\* Main.__init__ (lines 67-84)
MainConstructor(st) ==
  IF app.application_name = None THEN Exit(st)
  ELSE ProcessFlags([st EXCEPT !.run_mode = None, !.stopping_condition_fn = None])

\* The exit status of the process when nothing catches what __init__ raises:
\* SystemExit(1) and an uncaught exception both end Python with status 1.
ExitStatus == IF mstatus \in {"exit", "TypeError"} THEN "1" ELSE "none"

DirFlag(state, path) == IF state = "unset" THEN Unset ELSE path

InitMain ==
  /\ app \in [application_name : {None, "app"}, input_spec_reader_class : {None, "reader"}]
  /\ \E pd \in DirFlagStates, ld \in DirFlagStates, sd \in DirFlagStates,
        home \in HomeStates :
       /\ flags \in [run_mode : RunModes, stopping_condition : StoppingConditionFlags,
                     input_spec_file : InputSpecFiles, debug : DebugFlags,
                     persistent_directory : {DirFlag(pd, <<"P">>)},
                     ltm_directory : {DirFlag(ld, <<"L">>)},
                     stats_directory : {DirFlag(sd, <<"S">>)}]
       /\ fs = home \cup (IF pd = "exists" THEN {<<"P">>} ELSE {})
                    \cup (IF ld = "exists" THEN {<<"L">>} ELSE {})
                    \cup (IF sd = "exists" THEN {<<"S">>} ELSE {})
  /\ run_mode = None
  /\ stopping_condition_fn = None
  /\ mstatus = "new"

\* The program builds its Main: Main(flags).
MainInit ==
  /\ mstatus = "new"
  /\ LET st == MainConstructor(MainState) IN
       /\ flags' = st.flags
       /\ fs' = st.fs
       /\ run_mode' = st.run_mode
       /\ stopping_condition_fn' = st.stopping_condition_fn
       /\ mstatus' = st.status
  /\ UNCHANGED <<app, cvars, catvars>>

\* Main.Run (lines 221-227): self.run_mode.Run()
MainRun ==
  /\ mstatus = "ok"
  /\ mstatus' = "run"
  /\ UNCHANGED <<app, flags, fs, run_mode, stopping_condition_fn, cvars, catvars>>

NextMain == MainInit \/ MainRun

\* A program whose setup succeeded in single mode and whose Run has been called.
MainRunning ==
  /\ app = [application_name |-> "app", input_spec_reader_class |-> None]
  /\ flags = [run_mode |-> "single", stopping_condition |-> "", input_spec_file |-> "",
              debug |-> "", persistent_directory |-> <<"P">>,
              ltm_directory |-> <<"P", "ltm">>, stats_directory |-> <<"P", "stats">>]
  /\ fs = {<<"P">>, <<"P", "ltm">>, <<"P", "stats">>}
  /\ run_mode = "RunModeSingle"
  /\ stopping_condition_fn = ""
  /\ mstatus = "run"

----------------------------------------------------------------------------
(* farg/categorization/category.py: the operations of the base Category.   *)

\* The categorizable items and the mappings the operations are called with.
NumItems == 8
Items == 1..NumItems
Mappings == 1..NumItems

\* raise FargError(message)
RaiseFargError(message) == [kind |-> "raise", value |-> "FargError", message |-> message]

\* Category.IsInstance (lines 36-41)
Category_IsInstance(object) ==
  RaiseFargError("IsInstance makes no sense on base category.")

\* FindMapping answering "no mapping" instead of raising.
Category_FindMappingNone(categorizable1, categorizable2) ==
  [kind |-> "return", value |-> None, message |-> ""]

\* Category.FindMapping (lines 43-45)
Category_FindMapping(categorizable1, categorizable2) ==
  RaiseFargError("IsInstance makes no sense on base category.")

\* Category.ApplyMapping (lines 47-49)
Category_ApplyMapping(categorizable, mapping) ==
  RaiseFargError("IsInstance makes no sense on base category.")

NoResult == [op |-> "none", args |-> << >>, kind |-> "none", value |-> None,
             message |-> ""]

Outcome(op, args, r) ==
  [op |-> op, args |-> args, kind |-> r.kind, value |-> r.value, message |-> r.message]

InitCategory ==
  /\ memberships = [i \in Items |-> {}]
  /\ result = NoResult

\* A caller invokes IsInstance on the base Category.
IsInstance(object) ==
  /\ result' = Outcome("IsInstance", <<object>>, Category_IsInstance(object))
  /\ UNCHANGED <<memberships, cvars, mvars>>

\* A caller invokes FindMapping on the base Category.
FindMapping(categorizable1, categorizable2) ==
  /\ result' = Outcome("FindMapping", <<categorizable1, categorizable2>>,
                       Category_FindMapping(categorizable1, categorizable2))
  /\ UNCHANGED <<memberships, cvars, mvars>>

\* A caller invokes ApplyMapping on the base Category.
ApplyMapping(categorizable, mapping) ==
  /\ result' = Outcome("ApplyMapping", <<categorizable, mapping>>,
                       Category_ApplyMapping(categorizable, mapping))
  /\ UNCHANGED <<memberships, cvars, mvars>>

NextCategory ==
  \/ \E o \in Items : IsInstance(o)
  \/ \E a \in Items, b \in Items : FindMapping(a, b)
  \/ \E a \in Items, m \in Mappings : ApplyMapping(a, m)

----------------------------------------------------------------------------
\* The run loop: Controllers built and stepped by a run mode.
Init == InitControllers /\ MainRunning /\ InitCategory

Next == NextControllers

Spec == Init /\ [][Next]_vars

\* The setup: Main is constructed from the flags, then run.
InitSetup == InitMain /\ InitControllers /\ InitCategory

SpecMain == InitSetup /\ [][NextMain]_vars

\* The run loop of the Controller with the roomy Coderack.
InitInjection == InitControllers /\ InitCategory /\ MainRunning

SpecInjection == InitInjection /\ [][NextInjection]_vars

\* The base Category's operations.
InitCategories == InitCategory /\ InitControllers /\ MainRunning

SpecCategory == InitCategories /\ [][NextCategory]_vars

----------------------------------------------------------------------------
(* Properties.                                                             *)

\* A call to Step on c has just ended: it returned to the driver or to the loop of
\* RunUptoNSteps, or a signal propagated out of it.
StepJustEnded(c) ==
  /\ pc \in {"idle", "loop"}
  /\ call.ctrl = c
  /\ call.op \in {"Step", "RunUptoNSteps"}
  /\ call.done >= 1

\* The rack holds exactly one codelet for each triple configured for c, with the
\* triple's family and urgency and bound to c.
OnePerTriple(c, rack) ==
  /\ Cardinality(rack) = Len(routine_codelets_to_add(c))
  /\ \A i \in 1..Len(routine_codelets_to_add(c)) :
       \E x \in rack : /\ x.family = routine_codelets_to_add(c)[i].family
                       /\ x.urgency = routine_codelets_to_add(c)[i].urgency
                       /\ x.controller = c

\* C1: right after the n-th call to Step on a Controller with an attached LTM,
\* however the call ended, the Controller's step count is n and the LTM's time is n.
C1_StepCountAndTime ==
  \A c \in constructed :
    (StepJustEnded(c) /\ ltm[c] # 0) =>
      (steps_taken[c] = calls[c] /\ timesteps[ltm[c]] = calls[c])

\* The second Step of c1 ended with a signal while c2, on the same LTM, has taken
\* one step.
C1_Witness ==
  /\ StepJustEnded("c1")
  /\ call.signal # "none"
  /\ calls["c1"] = 2
  /\ calls["c2"] = 1
  /\ ltm["c1"] # 0
  /\ ltm["c1"] = ltm["c2"]

\* C2: a signal raised during a Step of RunUptoNSteps ends the call at once: the
\* signal is out of Step and RunUptoNSteps, no codelet runs after it, the calls to
\* Step made are those counted by the step counter, and the Controller is halted.
\* Without a signal RunUptoNSteps(n) ends after exactly n calls to Step.
C2_HaltingStopsTheLoop ==
  /\ call.signal # "none" =>
       /\ pc = "idle"
       /\ codelet = NoCodelet
       /\ call.ctrl \in halted
  /\ (pc = "idle" /\ call.op = "RunUptoNSteps") =>
       /\ steps_taken[call.ctrl] = call.start + call.done
       /\ IF call.signal # "none"
          THEN call.done >= 1 /\ call.done <= call.n
          ELSE call.done = call.n

\* RunUptoNSteps(2) whose first Step ran a codelet that raised the halting signal.
C2_Witness ==
  /\ pc = "idle"
  /\ call.op = "RunUptoNSteps"
  /\ call.n = 2
  /\ call.done = 1
  /\ call.raised = "Other"
  /\ call.signal = "Halt"

\* C3: a codelet that raises the recoverable signal never stops the loop: unless a
\* codelet raised something else, nothing propagates out of RunUptoNSteps(m) and
\* the step count reaches m.
C3_RecoverableNeverStops ==
  (pc = "idle" /\ call.op = "RunUptoNSteps" /\ call.raised # "Other") =>
    /\ call.signal = "none"
    /\ call.done = call.n
    /\ steps_taken[call.ctrl] = call.start + call.n

\* C4 as stated: after the injection of a Step that found the Coderack empty, and
\* before the draw, every configured triple has been injected and the Coderack is
\* not empty.
C4_ForcedBootstrapNonEmpty ==
  (pc = "draw" /\ call.forced) =>
    /\ OnePerTriple(call.ctrl, coderack[call.ctrl])
    /\ ~IsEmpty(coderack[call.ctrl])

\* C4: after the injection of a Step that found the Coderack empty, and before the
\* draw, every configured triple has been injected, whatever its probability; the
\* Coderack is then empty only if no triple is configured.
C4_ForcedBootstrap ==
  (pc = "draw" /\ call.forced) =>
    /\ OnePerTriple(call.ctrl, coderack[call.ctrl])
    /\ (IsEmpty(coderack[call.ctrl]) <=> routine_codelets_to_add(call.ctrl) = << >>)

\* A Step of c1, whose first triple has probability 0, found the Coderack empty and
\* has injected both triples.
C4_Witness ==
  /\ pc = "draw"
  /\ call.forced
  /\ call.ctrl = "c1"
  /\ steps_taken["c1"] >= 1
  /\ Cardinality(coderack["c1"]) = 2

\* C5: Controllers built with the same LTM name hold the same LTM instance, and
\* right after a Step of one of them the time they all read from it is the step
\* count of the one that stepped.
C5_SharedLTM ==
  \A c \in constructed, d \in constructed :
    (ltm_name(c) # None /\ ltm_name(c) = ltm_name(d)) =>
      /\ ltm[c] # 0
      /\ ltm[c] = ltm[d]
      /\ StepJustEnded(c) => timesteps[ltm[d]] = steps_taken[c]

\* c2 has just stepped for the first time after c1 took two steps on the same LTM.
C5_Witness ==
  /\ {"c1", "c2"} \subseteq constructed
  /\ StepJustEnded("c2")
  /\ steps_taken["c2"] = 1
  /\ steps_taken["c1"] = 2
  /\ timesteps[ltm["c1"]] = 1

\* C6: the construction of a Controller leaves it with step count 0, idle, with no
\* codelet run and exactly one codelet per configured triple in its Coderack, and
\* writes no time counter of an LTM that existed; a new LTM starts at time 0.
C6_Construction ==
  [][\A c \in Controllers :
       (c \notin constructed /\ c \in constructed') =>
         /\ steps_taken'[c] = 0
         /\ calls'[c] = 0
         /\ pc' = "idle"
         /\ codelet' = NoCodelet
         /\ c \notin halted'
         /\ OnePerTriple(c, coderack'[c])
         /\ \A i \in 1..Len(timesteps') :
              timesteps'[i] = IF i <= Len(timesteps) THEN timesteps[i] ELSE 0]_vars

\* c1, whose first triple has probability 0, has just been constructed on an LTM
\* that c2 has advanced to time 2.
C6_Witness ==
  /\ pc = "idle"
  /\ call.op = "Construct"
  /\ call.ctrl = "c1"
  /\ steps_taken["c1"] = 0
  /\ "c2" \in constructed
  /\ timesteps[ltm["c1"]] = 2
  /\ OnePerTriple("c1", coderack["c1"])

\* C7: no Coderack ever holds more codelets than its capacity; an AddCodelet made
\* by a running codelet while the Coderack is under capacity evicts nothing and
\* adds one codelet, and so does an injection that fits into the capacity.
C7_Capacity ==
  [][\A c \in Controllers :
       /\ Cardinality(coderack'[c]) <= max_capacity
       /\ (pc = "run" /\ pc' = "run" /\ call.ctrl = c
             /\ Cardinality(coderack[c]) < max_capacity) =>
            /\ coderack[c] \subseteq coderack'[c]
            /\ Cardinality(coderack'[c]) = Cardinality(coderack[c]) + 1
       /\ (pc = "inject" /\ call.ctrl = c
             /\ Cardinality(coderack[c]) + Len(routine_codelets_to_add(c))
                  <= max_capacity) =>
            coderack[c] \subseteq coderack'[c]]_vars

\* The running codelet has called AddCodelet twice and the Coderack is full.
C7_Witness ==
  /\ pc = "run"
  /\ adds = 2
  /\ Cardinality(coderack[call.ctrl]) = max_capacity

\* The configuration errors of the flags and of the Main subclass.
ConfigurationError ==
  \/ app.application_name = None
  \/ flags.run_mode = "gui" /\ flags.stopping_condition # ""
  \/ /\ flags.run_mode # "gui"
     /\ flags.stopping_condition \notin ({"", "None"} \cup StoppingConditionsList)
  \/ flags.run_mode \in {"batch", "sxs"} /\ flags.input_spec_file = ""
  \/ flags.run_mode \notin {"gui", "single", "batch", "sxs"}

\* C8: with a configuration error, constructing Main ends the process with exit
\* status 1 and no run mode assigned, and Run is never called.
C8_ConfigurationErrorsFailFast ==
  ConfigurationError =>
    /\ mstatus # "new" => (ExitStatus = "1" /\ run_mode = None)
    /\ mstatus # "run"

\* An unrecognized run mode was found at the end of the setup, after the
\* directories had been made.
C8_Witness ==
  /\ mstatus = "exit"
  /\ flags.run_mode = "other"
  /\ flags.input_spec_file = "spec.txt"
  /\ flags.stopping_condition = "known"
  /\ app.input_spec_reader_class # None
  /\ flags.stats_directory # Unset
  /\ flags.stats_directory \in fs

C10_TimeNeverDecreases ==
  [][\A i \in 1..Len(timesteps) : timesteps'[i] >= timesteps[i]]_vars

\* C11: halted is absorbing: once a signal has propagated out of a Step of a
\* Controller, no later call to Step on it changes its step counter, its Coderack
\* or the time counter of its LTM, and none runs a codelet.
C11_HaltedIsAbsorbing ==
  [][\A c \in halted :
       call'.ctrl = c =>
         /\ steps_taken'[c] = steps_taken[c]
         /\ coderack'[c] = coderack[c]
         /\ ltm[c] # 0 => timesteps'[ltm[c]] = timesteps[ltm[c]]
         /\ pc' # "run"]_vars

\* C12: a call to Step makes one draw and one Run when the Coderack is not empty
\* after injection and none otherwise: the draw follows the injection, which
\* follows the counting of the step; a codelet starts to run only at the draw; and
\* when the codelet's Run ends the Step ends, whatever the Coderack then holds.
C12_OneCodeletPerStep ==
  [][/\ pc' = "inject" => (pc \in {"idle", "loop"}
                             /\ steps_taken'[call'.ctrl] = steps_taken[call'.ctrl] + 1)
     /\ pc' = "draw" => pc = "inject"
     /\ pc = "draw" =>
          IF IsEmpty(coderack[call.ctrl])
          THEN pc' \in {"idle", "loop"} /\ codelet' = NoCodelet
          ELSE pc' = "run" /\ codelet' \in coderack[call.ctrl]
     /\ pc # "draw" => codelet' \in {codelet, NoCodelet}
     /\ pc = "run" =>
          \/ pc' = "run" /\ codelet' = codelet
          \/ pc' \in {"idle", "loop"} /\ codelet' = NoCodelet]_vars

\* The first Step of c1 has returned and a codelet that its codelet scheduled
\* through Controller.AddCodelet is still in the Coderack.
C12_Witness ==
  /\ pc = "idle"
  /\ call.op = "Step"
  /\ call.ctrl = "c1"
  /\ calls["c1"] = 1
  /\ call.signal = "none"
  /\ \E x \in coderack["c1"] : x.family \in AddFamilies

\* C13: Step draws only from a Coderack that is not empty, and no
\* EmptyCoderackError leaves it; a Step whose Coderack is empty after injection
\* has counted the step, in the Controller and in its LTM, runs nothing and returns
\* normally, leaving the Coderack empty.
C13_NoDrawFromEmpty ==
  [][/\ call'.signal # "EmptyCoderackError"
     /\ (pc = "draw" /\ pc' = "run") => ~IsEmpty(coderack[call.ctrl])
     /\ (pc = "draw" /\ IsEmpty(coderack[call.ctrl])) =>
          /\ pc' \in {"idle", "loop"}
          /\ codelet' = NoCodelet
          /\ call'.signal = "none"
          /\ halted' = halted
          /\ steps_taken'[call.ctrl] = call.start + call.done
          /\ steps_taken'[call.ctrl] = calls'[call.ctrl]
          /\ ltm[call.ctrl] # 0 => timesteps'[ltm[call.ctrl]] = steps_taken'[call.ctrl]
          /\ IsEmpty(coderack'[call.ctrl])]_vars

\* c2, which has no routine codelets, has returned from its second Step.
C13_Witness ==
  /\ StepJustEnded("c2")
  /\ routine_codelets_to_add("c2") = << >>
  /\ steps_taken["c2"] = 2
  /\ timesteps[ltm["c2"]] = 2
  /\ call.signal = "none"
  /\ IsEmpty(coderack["c2"])

\* C14: the draw removes the drawn codelet from the Coderack; while it runs it is
\* in no Coderack, no codelet that enters a Coderack is the running one, and
\* when its Run returns or raises nothing is put back.
C14_ConsumedOnce ==
  [][/\ (pc = "draw" /\ pc' = "run") =>
          /\ codelet' \in coderack[call.ctrl]
          /\ coderack'[call.ctrl] = coderack[call.ctrl] \ {codelet'}
     /\ pc' = "run" => \A c \in AllControllers : codelet' \notin coderack'[c]
     /\ (pc = "run" /\ pc' # "run") =>
          /\ coderack' = coderack
          /\ codelet' = NoCodelet]_vars

\* A codelet of c1 is running after it scheduled a follow-up; the Coderack holds
\* two other codelets.
C14_Witness ==
  /\ pc = "run"
  /\ call.ctrl = "c1"
  /\ codelet.family = "F1"
  /\ adds = 1
  /\ Cardinality(coderack["c1"]) = 2
  /\ codelet \notin coderack["c1"]

\* The triples of c of which rack new holds a codelet that rack old did not hold.
InjectedTriples(c, old, new) ==
  {i \in 1..Len(routine_codelets_to_add(c)) :
     \E x \in new \ old : /\ x.family = routine_codelets_to_add(c)[i].family
                          /\ x.urgency = routine_codelets_to_add(c)[i].urgency
                          /\ x.controller = c}

\* An injection is about to be made into a Coderack that is not empty and has room
\* for a codelet of every triple, so that the injection evicts nothing.
InjectionFits ==
  /\ pc = "inject"
  /\ ~IsEmpty(coderack[call.ctrl])
  /\ Cardinality(coderack[call.ctrl]) + Len(routine_codelets_to_add(call.ctrl))
       <= Capacity(call.ctrl)

\* What an injection into a Coderack that is not empty adds: only new codelets, at
\* most one for a triple, each with its triple's family and urgency and bound to
\* the injecting Controller.
InjectsAtMostOnePerTriple ==
  LET c == call.ctrl IN
    /\ coderack[c] \subseteq coderack'[c]
    /\ Cardinality(coderack'[c] \ coderack[c])
         = Cardinality(InjectedTriples(c, coderack[c], coderack'[c]))
    /\ \A x \in coderack'[c] \ coderack[c] :
         /\ x.controller = c
         /\ \E i \in 1..Len(routine_codelets_to_add(c)) :
              /\ x.family = routine_codelets_to_add(c)[i].family
              /\ x.urgency = routine_codelets_to_add(c)[i].urgency

\* The sets of triples that the injection about to be made may inject.
PossibleInjections ==
  {InjectedTriples(call.ctrl, coderack[call.ctrl], r) :
     r \in AddRoutineCodelets(call.ctrl, FALSE, coderack[call.ctrl])}

\* C15 as stated: an injection into a Coderack that is not empty adds at most one
\* codelet per triple, with the triple's family and urgency and bound to the
\* Controller, and every subset of the triples is a possible outcome.
C15_EverySubsetPossible ==
  [][InjectionFits =>
       /\ InjectsAtMostOnePerTriple
       /\ PossibleInjections
            = SUBSET (1..Len(routine_codelets_to_add(call.ctrl)))]_vars

\* C15: an injection into a Coderack that is not empty adds at most one codelet
\* per triple, with the triple's family and urgency and bound to the Controller;
\* the possible outcomes are the subsets of the triples that hold every triple of
\* probability 1 or more and no triple of probability 0 or less.
C15_IndependentTosses ==
  [][InjectionFits =>
       /\ InjectsAtMostOnePerTriple
       /\ PossibleInjections
            = {S \in SUBSET (1..Len(routine_codelets_to_add(call.ctrl))) :
                 \A i \in 1..Len(routine_codelets_to_add(call.ctrl)) :
                   /\ routine_codelets_to_add(call.ctrl)[i].probability >= 100 => i \in S
                   /\ routine_codelets_to_add(call.ctrl)[i].probability <= 0
                        => i \notin S}]_vars

\* The first Step of c4 has injected both of its tossed triples into the three
\* codelets of the construction; the triple of probability 0 was left out.
C15_Witness ==
  /\ pc = "draw"
  /\ call.ctrl = "c4"
  /\ ~call.forced
  /\ steps_taken["c4"] = 1
  /\ Cardinality(coderack["c4"]) = 5
  /\ Cardinality({x \in coderack["c4"] : x.family = "F7"}) = 1

\* C16: a codelet of positive urgency that is in a Coderack is eventually drawn
\* and run. Stated as what every finite run must then show: such a codelet leaves
\* its Coderack only by being drawn, for a codelet that leaves it otherwise is
\* destroyed and no later Step can run it.
C16_LowUrgencyEventuallyRuns ==
  [][\A c \in AllControllers : \A x \in coderack[c] :
       x.urgency > 0 =>
         \/ x \in coderack'[c]
         \/ pc' = "run" /\ codelet' = x]_vars

\* C17: a transition of a Step leaves the step counter and the Coderack of every
\* other Controller as they were, binds no Controller to another LTM, and writes no
\* time counter but that of the stepping Controller's LTM: none at all when the
\* Controller has no LTM.
C17_StepFrame ==
  [][call'.op \in {"Step", "RunUptoNSteps"} =>
       /\ \A d \in AllControllers \ {call'.ctrl} :
            /\ steps_taken'[d] = steps_taken[d]
            /\ coderack'[d] = coderack[d]
            /\ calls'[d] = calls[d]
       /\ ltm' = ltm
       /\ registry' = registry
       /\ Len(timesteps') = Len(timesteps)
       /\ \A i \in 1..Len(timesteps) :
            i # ltm[call'.ctrl] => timesteps'[i] = timesteps[i]]_vars

\* c2 has just taken a step on the LTM it shares with c1, after c1 and c3, which
\* has no LTM, each took one; c1 still holds codelets.
C17_Witness ==
  /\ StepJustEnded("c2")
  /\ steps_taken = [c \in AllControllers |-> IF c \in Controllers THEN 1 ELSE 0]
  /\ ltm["c1"] # 0
  /\ ltm["c1"] = ltm["c2"]
  /\ ltm["c3"] = 0
  /\ ~IsEmpty(coderack["c1"])
  /\ ~IsEmpty(coderack["c3"])

\* The errors that ProcessFlags and __init__ look for before any directory is
\* looked at: no application name, an invalid log level, an input spec file that
\* is missing or no file, an invalid stopping condition.
ValidationError ==
  \/ app.application_name = None
  \/ flags.debug # "" /\ ~IsLogLevel(flags.debug)
  \/ /\ flags.input_spec_file # ""
     /\ ~(InputExists(flags.input_spec_file) /\ InputIsFile(flags.input_spec_file))
  \/ flags.run_mode = "gui" /\ flags.stopping_condition # ""
  \/ /\ flags.run_mode # "gui"
     /\ flags.stopping_condition \notin ({"", "None"} \cup StoppingConditionsList)

\* C18: when the flags or the class hold one of these errors, the construction of
\* Main exits, and it has made no directory, changed no flag and built no run mode.
C18_ValidatesBeforeCreating ==
  [][(mstatus = "new" /\ ValidationError) =>
       /\ mstatus' = "exit"
       /\ fs' = fs
       /\ flags' = flags
       /\ run_mode' = None]_vars

\* The setup has exited on an unknown stopping condition; the home directory
\* exists, no directory flag was given, and nothing was made below the home.
C18_Witness ==
  /\ mstatus = "exit"
  /\ app.application_name # None
  /\ flags.debug = "info"
  /\ flags.input_spec_file = "spec.txt"
  /\ flags.run_mode = "batch"
  /\ flags.stopping_condition = "unknown"
  /\ flags.persistent_directory = Unset
  /\ flags.ltm_directory = Unset
  /\ flags.stats_directory = Unset
  /\ fs = {Home}

====
